---- MODULE Spec2Model ----
(***************************************************************************)
(* The EDA page of the California CES dashboard (src/app.py).              *)
(*                                                                         *)
(* Streamlit reruns the whole script on every widget change, so every      *)
(* action below is one complete rerun: the widgets are read, the year's    *)
(* file is loaded, eda() is evaluated and everything it hands to the       *)
(* renderer is stored.                                                     *)
(*                                                                         *)
(* Names of counties and industries are modelled by their rank in the      *)
(* lexicographic order of the names (1 is the smallest name), because the  *)
(* only things the code does with a name are comparing and ordering.      *)
(* A data frame is the sequence of its rows, a row is a record whose       *)
(* fields are the column names ("CE" abbreviates 'Current Employment').    *)
(***************************************************************************)
EXTENDS Integers, Sequences, FiniteSets, TLC

\* ------------------------------------------------------------ bounds
NumCounties   == 2    \* distinct county names that may occur in a file
NumIndustries == 11   \* distinct industry names that may occur in a file
MaxEmp        == 2    \* employment values are 1..MaxEmp
NumYears      == 2    \* the year selectbox offers the first NumYears years

\* ------------------------------------------------------------ program constants
FirstYear == 2024     \* range(2024, 2013, -1)
Others    == 0        \* the label 'Others' of the synthetic row
NaN       == 0 - 1    \* a column pd.concat fills because a frame lacks it
None      == 0 - 2    \* what st.selectbox returns for an empty option list

Sections      == {"Introduction", "IDA", "EDA", "Upcoming"}
AnalysisTypes == {"County-wise Industry", "Industry-wise County"}
Years         == {FirstYear - d : d \in 0..(NumYears - 1)}
TieOrders     == {"first", "last"}

VARIABLES
    files,          \* year -> the frame df of lines 180-187 for data/{year}.csv
    tie_order,      \* how this build's unstable quicksort leaves equal keys
    options,        \* sidebar radio
    year,           \* year selectbox
    filter_option,  \* analysis type selectbox
    selected_c1,    \* "Select {c1}" selectbox
    c1,             \* primary column of the last eda() call
    grouped_df,     \* line 62
    top_10_c1,      \* line 66, the frame given to px.bar
    grouped_table,  \* line 75, the frame given to st.dataframe
    c1_list,        \* line 78
    c1_data,        \* line 80
    c1_data_t7,     \* lines 84-91, the frame given to px.pie
    c1_table        \* line 101, the frame given to st.dataframe

vars == <<files, tie_order, options, year, filter_option, selected_c1, c1,
          grouped_df, top_10_c1, grouped_table, c1_list, c1_data,
          c1_data_t7, c1_table>>

\* ------------------------------------------------------------ helpers
RECURSIVE SumCE(_)
SumCE(df) == IF df = <<>> THEN 0 ELSE Head(df).CE + SumCE(Tail(df))

Reverse(s) == [i \in 1..Len(s) |-> s[Len(s) + 1 - i]]

Filter(df, col, v) == SelectSeq(df, LAMBDA r : r[col] = v)

\* DataFrame.head(n) for n >= 0
head(df, n) == SubSeq(df, 1, IF n < Len(df) THEN n ELSE Len(df))

\* DataFrame.tail(n): iloc[0:0] when n = 0, otherwise iloc[-n:]; for a
\* negative n that is iloc[|n|:], every row but the first |n|.
tail(df, n) ==
    IF n = 0 THEN <<>>
    ELSE IF n > 0 THEN SubSeq(df, (IF n < Len(df) THEN Len(df) - n ELSE 0) + 1, Len(df))
    ELSE SubSeq(df, (0 - n) + 1, Len(df))

\* DataFrame.iloc[n:]
iloc_from(df, n) == SubSeq(df, n + 1, Len(df))

\* Series.unique(): the distinct values in order of first appearance
RECURSIVE unique(_, _)
unique(df, col) ==
    IF df = <<>> THEN <<>>
    ELSE LET init == unique(SubSeq(df, 1, Len(df) - 1), col)
             v    == df[Len(df)][col]
         IN  IF \E j \in 1..Len(init) : init[j] = v THEN init ELSE Append(init, v)

\* ------------------------------------------------------------ input files
\* One row of the frame built by lines 185-187.
Row(c, i, e) == [County |-> c, Industry |-> i, CE |-> e]

Counties   == 1..NumCounties
Industries == 1..NumIndustries

\* groupby(['Area Name', 'Industry Title']) ... reset_index() leaves one row
\* per (county, industry) pair, ordered by county and then by industry.
PairRank(P, p) ==
    Cardinality({q \in P : q[1] < p[1] \/ (q[1] = p[1] /\ q[2] <= p[2])})

\* the employment figure of county c and industry i: the figures cycle
\* through 1..m
Emp(c, i, m) == 1 + ((c + i) % m)

Frame(P, m) ==
    [n \in 1..Cardinality(P) |->
        LET p == CHOOSE q \in P : PairRank(P, q) = n
        IN  Row(p[1], p[2], Emp(p[1], p[2], m))]

\* The files the model is run on.  A file has w industries per county; with
\* shift s the counties' industry ranges are staggered, county 1 starting
\* highest, so that the first industry met in the file is not the smallest.
\* Employment cycles through 1..m.  Each earlier year has d industries per
\* county fewer than the year after it.
Pairs(w, s) ==
    {p \in Counties \X Industries :
        LET lo == 1 + s * (NumCounties - p[1])
        IN  p[2] >= lo /\ p[2] < lo + w}

Dataset(w, s, m) == Frame(Pairs(w, s), m)

Width(w, d, y) ==
    LET v == w - d * (FirstYear - y) IN IF v < 0 THEN 0 ELSE v

FileSets ==
    {[y \in Years |-> Dataset(Width(w, d, y), s, m)] :
        w \in 0..NumIndustries, s \in 0..1, m \in 1..MaxEmp, d \in 0..1}

\* lines 180-187: the frame the script builds from data/{y}.csv.  The mutant
\* keeps the frame of the year shown before the rerun (a cached read).
read_csv_cached(y) == files[year]

read_csv(y) == files[y]

\* ------------------------------------------------------------ pandas
\* df.groupby(col)['Current Employment'].sum().reset_index(): one row per
\* distinct value of col, in ascending order of the value (sort=True).
GroupKeys(df, col) == {df[j][col] : j \in 1..Len(df)}

KeyRank(K, k) == Cardinality({x \in K : x <= k})

\* mutants: .first() in place of .sum(); no grouping at all
groupby_first(df, col) ==
    LET K == GroupKeys(df, col)
    IN  [n \in 1..Cardinality(K) |->
            LET k == CHOOSE x \in K : KeyRank(K, x) = n
            IN  [x \in {col, "CE"} |->
                    IF x = col THEN k ELSE Head(Filter(df, col, k)).CE]]

ungrouped(df, col) ==
    [n \in 1..Len(df) |-> [x \in {col, "CE"} |-> IF x = col THEN df[n][col] ELSE df[n].CE]]

groupby_sum(df, col) ==
    LET K == GroupKeys(df, col)
    IN  [n \in 1..Cardinality(K) |->
            LET k == CHOOSE x \in K : KeyRank(K, x) = n
            IN  [x \in {col, "CE"} |->
                    IF x = col THEN k ELSE SumCE(Filter(df, col, k))]]

\* A descending sort that keeps equal rows in their order in df.
RECURSIVE StableDesc(_)
StableDesc(df) ==
    IF df = <<>> THEN <<>>
    ELSE LET x    == Head(df)
             rest == StableDesc(Tail(df))
             n    == Cardinality({j \in 1..Len(rest) : rest[j].CE > x.CE})
         IN  SubSeq(rest, 1, n) \o <<x>> \o SubSeq(rest, n + 1, Len(rest))

\* sort_values('Current Employment', ascending=False) with the default
\* kind='quicksort', which is not stable: rows come out in descending order,
\* and where equal rows land depends on the build.  Two outcomes are
\* modelled, equal rows in their order in df and in the opposite order.
\* mutant: ascending=False left out
sort_values_ascending(df) ==
    IF tie_order = "first" THEN Reverse(StableDesc(Reverse(df))) ELSE Reverse(StableDesc(df))

sort_values(df) ==
    IF tie_order = "first" THEN StableDesc(df) ELSE StableDesc(Reverse(df))

\* df[df[col] == v] ... reset_index(): the matching rows with their position
\* in df (0-based) as the column 'index'.
select_rows(df, col, v) ==
    LET idx == SelectSeq([j \in 1..Len(df) |-> j], LAMBDA j : df[j][col] = v)
    IN  [n \in 1..Len(idx) |->
            [index |-> idx[n] - 1, County |-> df[idx[n]].County,
             Industry |-> df[idx[n]].Industry, CE |-> df[idx[n]].CE]]

\* ------------------------------------------------------------ eda(df, c1, c2)
\* line 62
eda_grouped_df(df, col1) == sort_values(groupby_sum(df, col1))

\* mutant: the 8 of the tables used for the chart
eda_top_8_c1(grouped) == head(grouped, 8)

\* line 66
eda_top_10_c1(grouped) == head(grouped, 10)

\* line 75
eda_grouped_table(grouped) == tail(grouped, Len(grouped) - 8)

\* line 78
eda_c1_list(df, col1) == unique(df, col1)

\* line 80
eda_c1_data(df, col1, sel) == sort_values(select_rows(df, col1, sel))

\* line 88 and the columns pd.concat fills in line 89
others_data(col2, others_sum) ==
    [x \in {"index", "County", "Industry", "CE"} |->
        IF x = col2 THEN Others ELSE IF x = "CE" THEN others_sum ELSE NaN]

\* mutants of lines 84-91: the remainder taken from row 8 on; the threshold
\* met at 7 rows already; the remainder summed over the whole subset
eda_c1_data_t7_iloc8(data, col2) ==
    IF Len(data) > 7
    THEN head(data, 7) \o <<others_data(col2, SumCE(iloc_from(data, 8)))>>
    ELSE data

eda_c1_data_t7_ge7(data, col2) ==
    IF Len(data) >= 7
    THEN head(data, 7) \o <<others_data(col2, SumCE(iloc_from(data, 7)))>>
    ELSE data

eda_c1_data_t7_all(data, col2) ==
    IF Len(data) > 7
    THEN head(data, 7) \o <<others_data(col2, SumCE(data))>>
    ELSE data

\* lines 84-91
eda_c1_data_t7(data, col2) ==
    IF Len(data) > 7
    THEN LET top_7      == head(data, 7)
             others     == iloc_from(data, 7)
             others_sum == SumCE(others)
         IN  top_7 \o <<others_data(col2, others_sum)>>
    ELSE data

\* line 101
eda_c1_table(data, grouped) == tail(data, Len(grouped) - 8)

\* ------------------------------------------------------------ the script
\* lines 188-195: the columns eda() is called with
PrimaryOf(f)   == IF f = "County-wise Industry" THEN "County" ELSE "Industry"
SecondaryOf(f) == IF f = "County-wise Industry" THEN "Industry" ELSE "County"

\* line 79, st.selectbox(f"Select {c1}", c1_list): a selectbox is identified
\* by its label and its options.  While both stay the same it keeps the
\* user's choice; a selectbox met for the first time shows its first option,
\* and None when it has no options.
selectbox(same_label, old_list, new_list, old_value) ==
    IF new_list = <<>> THEN None
    ELSE IF same_label /\ old_list = new_list THEN old_value
    ELSE new_list[1]

\* One run of the script with the EDA section chosen (lines 164-195), the
\* year and analysis type widgets showing y and f.  pick is the option the
\* user has just chosen in the "Select {c1}" box, None if it was not touched.
RunEDA(y, f, pick) ==
    LET df      == read_csv(y)
        col1    == PrimaryOf(f)
        col2    == SecondaryOf(f)
        grouped == eda_grouped_df(df, col1)
        list    == eda_c1_list(df, col1)
        sel     == IF pick # None THEN pick
                   ELSE selectbox(options = "EDA" /\ col1 = c1, c1_list, list, selected_c1)
        data    == eda_c1_data(df, col1, sel)
    IN  /\ options'       = "EDA"
        /\ year'          = y
        /\ filter_option' = f
        /\ c1'            = col1
        /\ grouped_df'    = grouped
        /\ top_10_c1'     = eda_top_10_c1(grouped)
        /\ grouped_table' = eda_grouped_table(grouped)
        /\ c1_list'       = list
        /\ selected_c1'   = sel
        /\ c1_data'       = data
        /\ c1_data_t7'    = eda_c1_data_t7(data, col2)
        /\ c1_table'      = eda_c1_table(data, grouped)
        /\ UNCHANGED <<files, tie_order>>

\* One run of the script with another section chosen (lines 118-161 and
\* 200-208): eda() is not called, nothing of the EDA page is on screen and
\* the EDA widgets, not being rendered, lose their state.
RunOther(o) ==
    /\ options'       = o
    /\ year'          = FirstYear
    /\ filter_option' = "County-wise Industry"
    /\ c1'            = "County"
    /\ selected_c1'   = None
    /\ grouped_df'    = <<>>
    /\ top_10_c1'     = <<>>
    /\ grouped_table' = <<>>
    /\ c1_list'       = <<>>
    /\ c1_data'       = <<>>
    /\ c1_data_t7'    = <<>>
    /\ c1_table'      = <<>>
    /\ UNCHANGED <<files, tie_order>>

\* ------------------------------------------------------------ state machine
\* The app as first loaded: the radio shows "Introduction" (line 115).
Init ==
    /\ files \in FileSets
    /\ tie_order \in TieOrders
    /\ options = "Introduction"
    /\ year = FirstYear
    /\ filter_option = "County-wise Industry"
    /\ c1 = "County"
    /\ selected_c1 = None
    /\ grouped_df = <<>>
    /\ top_10_c1 = <<>>
    /\ grouped_table = <<>>
    /\ c1_list = <<>>
    /\ c1_data = <<>>
    /\ c1_data_t7 = <<>>
    /\ c1_table = <<>>

\* line 115: the user picks a section in the sidebar
SelectSection(o) ==
    /\ o # options
    /\ IF o = "EDA"
       THEN RunEDA(FirstYear, "County-wise Industry", None)
       ELSE RunOther(o)

\* line 174: the user picks a year
SelectYear(y) ==
    /\ options = "EDA"
    /\ y # year
    /\ RunEDA(y, filter_option, None)

\* line 178: the user picks an analysis type
SelectAnalysisType(f) ==
    /\ options = "EDA"
    /\ f # filter_option
    /\ RunEDA(year, f, None)

\* line 79: the user picks a value of the primary column
SelectC1(v) ==
    /\ options = "EDA"
    /\ \E j \in 1..Len(c1_list) : c1_list[j] = v
    /\ v # selected_c1
    /\ RunEDA(year, filter_option, v)

Next ==
    \/ \E o \in Sections : SelectSection(o)
    \/ \E y \in Years : SelectYear(y)
    \/ \E f \in AnalysisTypes : SelectAnalysisType(f)
    \/ \E v \in Counties \cup Industries : SelectC1(v)

Spec == Init /\ [][Next]_vars

\* ------------------------------------------------------------ properties
OnEDA    == options = "EDA"
InputDf  == files[year]
Primary  == PrimaryOf(filter_option)
Second   == SecondaryOf(filter_option)
Range(s) == {s[j] : j \in 1..Len(s)}

\* the records of the selected primary key, as they stand in the input
Subset == select_rows(InputDf, Primary, selected_c1)

\* the key's place in the order in which the input records first show it
Encounter(k) == CHOOSE j \in 1..Len(c1_list) : c1_list[j] = k

\* C1: the totals of the aggregate table add up to the sum of 'Current
\* Employment' over all records of the data set passed to eda().
Conservation == OnEDA => SumCE(grouped_df) = SumCE(InputDf)

ConservationWitness ==
    /\ OnEDA
    /\ Len(grouped_df) >= 2
    /\ Len(InputDf) > Len(grouped_df)
    /\ \E i, j \in 1..Len(InputDf) : InputDf[i].CE # InputDf[j].CE

\* C2 as stated: the aggregate table is in descending order of total, and of
\* two keys with equal totals the one met first in the input records comes
\* first.  It is stated here for the builds most favourable to it, those
\* whose sort keeps equal rows in the order it was given them.
TieBreakByEncounter ==
    (OnEDA /\ tie_order = "first") =>
        \A i, j \in 1..Len(grouped_df) :
            i < j =>
                \/ grouped_df[i].CE > grouped_df[j].CE
                \/ /\ grouped_df[i].CE = grouped_df[j].CE
                   /\ Encounter(grouped_df[i][Primary]) < Encounter(grouped_df[j][Primary])

\* C2 as amended: in both analysis directions a key with a larger total
\* stands before every key with a smaller total; nothing is promised about
\* keys with equal totals.
LargerTotalFirst ==
    OnEDA =>
        \A i, j \in 1..Len(grouped_df) :
            grouped_df[i].CE > grouped_df[j].CE => i < j

LargerTotalFirstWitness ==
    /\ OnEDA
    /\ filter_option = "Industry-wise County"
    /\ \E i, j \in 1..Len(grouped_df) : grouped_df[i].CE > grouped_df[j].CE
    /\ \E i, j \in 1..Len(grouped_df) :
          /\ i < j
          /\ grouped_df[i].CE = grouped_df[j].CE
          /\ Encounter(grouped_df[i][Primary]) > Encounter(grouped_df[j][Primary])

\* C3: the table below the bar chart holds exactly the aggregate rows ranked
\* 9th and lower, so no rows when the aggregate has 8 rows or fewer.
GroupedTableBeyondRank8 ==
    OnEDA => grouped_table = SubSeq(grouped_df, 9, Len(grouped_df))

\* C4: the table below the pie chart holds exactly the rows of the selected
\* key's subset ranked 9th and lower, whatever the number of primary keys.
SubsetTableBeyondRank8 ==
    OnEDA => c1_table = SubSeq(c1_data, 9, Len(c1_data))

\* C5: a subset of more than 7 rows gives a breakdown of exactly 8 rows, the
\* 7 highest rows of the subset in descending order, unchanged, and then a
\* row labelled "Others" carrying the subset's sum less the sum of the 7.
BreakdownCollapse ==
    (OnEDA /\ Len(Subset) > 7) =>
        /\ Len(c1_data_t7) = 8
        /\ \A i \in 1..7 : c1_data_t7[i] \in Range(Subset)
        /\ \A i, j \in 1..7 :
              i < j => /\ c1_data_t7[i] # c1_data_t7[j]
                       /\ c1_data_t7[i].CE >= c1_data_t7[j].CE
        /\ \A r \in Range(Subset) :
              (\A i \in 1..7 : c1_data_t7[i] # r) => r.CE <= c1_data_t7[7].CE
        /\ c1_data_t7[8][Second] = Others
        /\ c1_data_t7[8].CE = SumCE(Subset) - SumCE(SubSeq(c1_data_t7, 1, 7))

BreakdownCollapseWitness ==
    /\ OnEDA
    /\ Len(Subset) > 8
    /\ Len(c1_data_t7) = 8
    /\ \E i, j \in 1..Len(Subset) : Subset[i].CE < Subset[j].CE /\ i < j

\* C6: a subset of 7 rows or fewer, the empty one included, gives as
\* breakdown exactly the subset in descending order, with no "Others" row.
BreakdownPassthrough ==
    (OnEDA /\ Len(Subset) <= 7) =>
        /\ Len(c1_data_t7) = Len(Subset)
        /\ Range(c1_data_t7) = Range(Subset)
        /\ \A i, j \in 1..Len(c1_data_t7) :
              i < j => c1_data_t7[i].CE >= c1_data_t7[j].CE
        /\ \A i \in 1..Len(c1_data_t7) : c1_data_t7[i][Second] # Others

BreakdownPassthroughWitness ==
    /\ OnEDA
    /\ Len(Subset) = 7
    /\ c1_data_t7 # Subset
    /\ Len(c1_data_t7) = 7

\* C7: every row of the aggregate table has a total at least that of the
\* row after it, and the bar chart gets the first 10 rows, all when fewer.
SortOrder ==
    OnEDA =>
        /\ \A i \in 1..(Len(grouped_df) - 1) : grouped_df[i].CE >= grouped_df[i + 1].CE
        /\ top_10_c1 = SubSeq(grouped_df, 1, IF Len(grouped_df) < 10 THEN Len(grouped_df) ELSE 10)

SortOrderWitness ==
    /\ OnEDA
    /\ Len(grouped_df) > 10
    /\ Len(top_10_c1) = 10
    /\ grouped_df[1].CE > grouped_df[Len(grouped_df)].CE

\* C8: the aggregate table has exactly one row for each distinct value of the
\* grouping key in the input records, and no two rows with the same key.
Uniqueness ==
    OnEDA =>
        /\ {grouped_df[i][Primary] : i \in 1..Len(grouped_df)}
              = {InputDf[j][Primary] : j \in 1..Len(InputDf)}
        /\ \A i, j \in 1..Len(grouped_df) :
              grouped_df[i][Primary] = grouped_df[j][Primary] => i = j

UniquenessWitness ==
    /\ OnEDA
    /\ Len(grouped_df) >= 2
    /\ Len(InputDf) > Len(grouped_df)

\* C9: after any sequence of interactions everything on the EDA page is what
\* a computation from scratch gives for the file of the year shown, the
\* analysis type shown and the primary key shown, and the key shown is one
\* the file of that year offers.
HistoryIndependence ==
    OnEDA =>
        /\ grouped_df = eda_grouped_df(InputDf, Primary)
        /\ top_10_c1 = eda_top_10_c1(eda_grouped_df(InputDf, Primary))
        /\ grouped_table = eda_grouped_table(eda_grouped_df(InputDf, Primary))
        /\ c1_list = eda_c1_list(InputDf, Primary)
        /\ IF c1_list = <<>> THEN selected_c1 = None
           ELSE \E j \in 1..Len(c1_list) : c1_list[j] = selected_c1
        /\ c1_data = eda_c1_data(InputDf, Primary, selected_c1)
        /\ c1_data_t7 = eda_c1_data_t7(eda_c1_data(InputDf, Primary, selected_c1), Second)
        /\ c1_table = eda_c1_table(eda_c1_data(InputDf, Primary, selected_c1),
                                   eda_grouped_df(InputDf, Primary))

HistoryIndependenceWitness ==
    /\ OnEDA
    /\ year # FirstYear
    /\ filter_option = "Industry-wise County"
    /\ c1_list # <<>>
    /\ selected_c1 # c1_list[1]
    /\ files[year] # files[FirstYear]

\* C10: the rows given to the pie chart, "Others" included, add up to the
\* selected key's total in the aggregate table.
CrossViewConsistency ==
    (OnEDA /\ selected_c1 # None) =>
        \E i \in 1..Len(grouped_df) :
            /\ grouped_df[i][Primary] = selected_c1
            /\ grouped_df[i].CE = SumCE(c1_data_t7)

CrossViewConsistencyWitness ==
    /\ OnEDA
    /\ selected_c1 # None
    /\ Len(c1_data) > 8
    /\ Len(grouped_df) >= 2

====
